---- MODULE Spec2Model ----
(***************************************************************************)
(* Catering-booking backend: the ingredient aggregation engine             *)
(* (backend/ingredients/routes.py, backend/utils/unit_helper.py) and the   *)
(* booking / final-ingredient-list lifecycle around it                     *)
(* (backend/models.py, backend/admin/api_routes.py, backend/bookings).     *)
(*                                                                         *)
(* Numbers.  Python floats are modelled as exact decimal fixed-point       *)
(* numbers: an integer n stands for the quantity n / Scale.  The inputs    *)
(* are multiples of 0.1, for which every product and quotient below is     *)
(* exact at this scale; binary floating-point error is not modelled.       *)
(*                                                                         *)
(* Text.  Ingredient and dish names are tuples of one-character strings,   *)
(* so that lower() and the substring test `word in name` are computed.     *)
(* Unit tokens are strings; lower().strip() on them is the table NormUnit. *)
(***************************************************************************)
EXTENDS Integers, Sequences, FiniteSets, TLC

----------------------------------------------------------------------------
(* Bounds of the model *)

MaxBookings == 1
MaxRequests == 2
MaxGuests == 12
MaxDishQty == 2
MaxDishes == 2

\* create-booking requests that may overlap
MaxSlotRequests == 2

\* minutes the clock runs
MaxClock == 17

Scale == 10 ^ 5

Null == -1

\* datetime.utcnow(): the one timestamp value of the model
UtcNow == 1

----------------------------------------------------------------------------
(* Text helpers *)

UpperToLower ==
    [c \in {"A","B","C","D","E","F","G","H","I","J","K","L","M","N","O","P","Q",
            "R","S","T","U","V","W","X","Y","Z"} |->
        CASE c = "A" -> "a" [] c = "B" -> "b" [] c = "C" -> "c" [] c = "D" -> "d"
          [] c = "E" -> "e" [] c = "F" -> "f" [] c = "G" -> "g" [] c = "H" -> "h"
          [] c = "I" -> "i" [] c = "J" -> "j" [] c = "K" -> "k" [] c = "L" -> "l"
          [] c = "M" -> "m" [] c = "N" -> "n" [] c = "O" -> "o" [] c = "P" -> "p"
          [] c = "Q" -> "q" [] c = "R" -> "r" [] c = "S" -> "s" [] c = "T" -> "t"
          [] c = "U" -> "u" [] c = "V" -> "v" [] c = "W" -> "w" [] c = "X" -> "x"
          [] c = "Y" -> "y" [] c = "Z" -> "z"]

\* str.lower()
Lower(s) ==
    [i \in 1..Len(s) |-> IF s[i] \in DOMAIN UpperToLower THEN UpperToLower[s[i]] ELSE s[i]]

\* `word in s` for strings
Contains(s, word) ==
    \E i \in 0..(Len(s) - Len(word)) :
        \A j \in 1..Len(word) : s[i + j] = word[j]

\* any(word in s for word in words)
AnyWordIn(s, words) ==
    \E k \in 1..Len(words) : Contains(s, words[k])

\* {"$regex": "^name$", "$options": "i"} for names without regex metacharacters
RegexIEquals(value, name) ==
    Lower(value) = Lower(name)

MilkWord == <<"m","i","l","k">>

FallbackOilWords ==
    << <<"o","i","l">>, <<"g","h","e","e">>, <<"b","u","t","t","e","r">> >>

FallbackGrainWords ==
    << <<"r","i","c","e">>, <<"f","l","o","u","r">>, <<"s","u","g","a","r">>,
       <<"s","a","l","t">> >>

FallbackVegWords ==
    << <<"o","n","i","o","n">>, <<"p","o","t","a","t","o">>,
       <<"t","o","m","a","t","o">>, <<"v","e","g","e","t","a","b","l","e">> >>

FallbackSpiceWords ==
    << <<"c","u","m","i","n">>, <<"t","u","r","m","e","r","i","c">>,
       <<"c","h","i","l","i">>, <<"c","o","r","i","a","n","d","e","r">> >>

NonVegWords ==
    << <<"c","h","i","c","k","e","n">>, <<"m","u","t","t","o","n">>,
       <<"f","i","s","h">>, <<"e","g","g">>, <<"m","e","a","t">> >>

VegetableWords ==
    << <<"o","n","i","o","n">>, <<"p","o","t","a","t","o">>,
       <<"t","o","m","a","t","o">>, <<"c","a","r","r","o","t">>,
       <<"b","e","a","n","s">>, <<"p","e","a","s">>,
       <<"v","e","g","e","t","a","b","l","e">>, <<"g","i","n","g","e","r">>,
       <<"g","a","r","l","i","c">>, <<"m","i","n","t">>,
       <<"c","o","r","i","a","n","d","e","r">>,
       <<"c","u","r","r","y"," ","l","e","a","v","e","s">>,
       <<"t","a","m","a","r","i","n","d">> >>

SpiceWords ==
    << <<"c","u","m","i","n">>, <<"t","u","r","m","e","r","i","c">>,
       <<"c","h","i","l","i">>, <<"c","o","r","i","a","n","d","e","r">>,
       <<"g","a","r","a","m">>, <<"m","a","s","a","l","a">>,
       <<"s","p","i","c","e","s">>, <<"m","u","s","t","a","r","d">>,
       <<"s","a","m","b","a","r">>, <<"b","i","r","y","a","n","i">> >>

DairyWords ==
    << <<"m","i","l","k">>, <<"c","h","e","e","s","e">>,
       <<"y","o","g","u","r","t">>, <<"b","u","t","t","e","r">>,
       <<"c","r","e","a","m">>, <<"p","a","n","e","e","r">> >>

FruitWords ==
    << <<"a","p","p","l","e">>, <<"b","a","n","a","n","a">>,
       <<"o","r","a","n","g","e">>, <<"f","r","u","i","t">>,
       <<"m","a","n","g","o">>, <<"g","r","a","p","e","s">> >>

GrainWords ==
    << <<"r","i","c","e">>, <<"w","h","e","a","t">>, <<"f","l","o","u","r">>,
       <<"g","r","a","i","n">>, <<"o","a","t","s">>, <<"b","a","r","l","e","y">> >>

HerbWords ==
    << <<"b","a","s","i","l">>, <<"o","r","e","g","a","n","o">>,
       <<"t","h","y","m","e">>, <<"r","o","s","e","m","a","r","y">>,
       <<"h","e","r","b">> >>

BeverageWords ==
    << <<"t","e","a">>, <<"c","o","f","f","e","e">>, <<"j","u","i","c","e">>,
       <<"b","e","v","e","r","a","g","e">>, <<"s","o","d","a">> >>

OilFatWords ==
    << <<"o","i","l">>, <<"g","h","e","e">>, <<"f","a","t">>,
       <<"b","u","t","t","e","r">>, <<"l","a","r","d">> >>

SweetWords ==
    << <<"s","u","g","a","r">>, <<"c","a","k","e">>, <<"b","r","e","a","d">>,
       <<"c","o","o","k","i","e">>, <<"s","w","e","e","t">>,
       <<"b","a","k","e","r","y">> >>

----------------------------------------------------------------------------
(* Unit converter: backend/utils/unit_helper.py *)

\* unit.lower().strip() on the unit tokens that occur in the model
NormUnit(unit) ==
    CASE unit = "KG" -> "kg"
      [] unit = " kg " -> "kg"
      [] unit = "Litre" -> "litre"
      [] unit = "Pcs" -> "pcs"
      [] OTHER -> unit

\* a successful return (value, base_unit) of to_base_unit
Converted(v, u) == [ok |-> TRUE, value |-> v, unit |-> u]

\* raise ValueError
InvalidUnit == [ok |-> FALSE, value |-> 0, unit |-> ""]

to_base_unit(value, unit) ==
    LET u == NormUnit(unit) IN
    CASE u \in {"kg", "kilogram", "kilograms"} -> Converted(value * 1000, "g")
      [] u \in {"g", "gm", "gram", "grams"} -> Converted(value, "g")
      [] u \in {"oz", "ounce", "ounces"} -> Converted((value \div 100) * 2835, "g")
      [] u \in {"lb", "pound", "pounds"} -> Converted((value \div 100) * 45359, "g")
      [] u \in {"mg", "milligram", "milligrams"} -> Converted(value \div 1000, "g")
      [] u \in {"l", "ltr", "liter", "liters", "litre", "litres"} ->
            Converted(value * 1000, "ml")
      [] u \in {"ml", "milliliter", "milliliters", "millilitre", "millilitres"} ->
            Converted(value, "ml")
      [] u \in {"piece", "pieces", "pcs", "pc"} -> Converted(value, "pcs")
      [] u \in {"packet", "packets", "pkt"} -> Converted(value, "pkt")
      [] u \in {"bunch", "bunches"} -> Converted(value, "bunch")
      [] u \in {"dozen", "dozens"} -> Converted(value, "dozen")
      [] u \in {"slice", "slices"} -> Converted(value, "slice")
      [] u \in {"can", "cans"} -> Converted(value, "can")
      [] u \in {"bottle", "bottles"} -> Converted(value, "bottle")
      [] u \in {"cup", "cups"} -> Converted(value, "cup")
      [] u \in {"tbsp", "tablespoon", "tablespoons"} -> Converted(value, "tbsp")
      [] u \in {"tsp", "teaspoon", "teaspoons"} -> Converted(value, "tsp")
      [] OTHER -> InvalidUnit

\* v rounded to the nearest multiple of m, ties to the even multiple
RoundToMultiple(v, m) ==
    LET q == v \div m
        r == v % m
    IN  IF 2 * r < m THEN q * m
        ELSE IF 2 * r > m THEN (q + 1) * m
        ELSE IF q % 2 = 0 THEN q * m ELSE (q + 1) * m

\* round(value, 2)
Round2(value) == RoundToMultiple(value, Scale \div 100)

\* round(value / 1000, 2)
Round2Div1000(value) == RoundToMultiple(value, 10 * Scale) \div 1000

\* kg and ltr only above 1000, not at 1000
to_display_unit_above_1000(value, base_unit) ==
    IF base_unit = "g" THEN
        IF value > 1000 * Scale
        THEN [value |-> Round2Div1000(value), unit |-> "kg"]
        ELSE [value |-> Round2(value), unit |-> "g"]
    ELSE IF base_unit = "ml" THEN
        IF value > 1000 * Scale
        THEN [value |-> Round2Div1000(value), unit |-> "ltr"]
        ELSE [value |-> Round2(value), unit |-> "ml"]
    ELSE [value |-> value, unit |-> base_unit]

to_display_unit(value, base_unit) ==
    IF base_unit = "g" THEN
        IF value >= 1000 * Scale
        THEN [value |-> Round2Div1000(value), unit |-> "kg"]
        ELSE [value |-> Round2(value), unit |-> "g"]
    ELSE IF base_unit = "ml" THEN
        IF value >= 1000 * Scale
        THEN [value |-> Round2Div1000(value), unit |-> "ltr"]
        ELSE [value |-> Round2(value), unit |-> "ml"]
    ELSE [value |-> value, unit |-> base_unit]

----------------------------------------------------------------------------
(* Aggregation engine: backend/ingredients/routes.py *)

\* dishes_collection.find_one({"name": {"$regex": "^dish_name$", "$options": "i"}}):
\* the first matching document in natural order, 0 when there is none
FindDishIndex(catalog, dish_name) ==
    IF \E i \in 1..Len(catalog) : RegexIEquals(catalog[i].name, dish_name)
    THEN CHOOSE i \in 1..Len(catalog) :
            /\ RegexIEquals(catalog[i].name, dish_name)
            /\ \A j \in 1..(i - 1) : ~RegexIEquals(catalog[j].name, dish_name)
    ELSE 0

\* a placeholder entry returned for a dish that has no template
get_dish_ingredients_or_placeholder(catalog, dish_name) ==
    LET i == FindDishIndex(catalog, dish_name) IN
    IF i # 0 /\ Len(catalog[i].ingredients) > 0
    THEN catalog[i].ingredients
    ELSE << [name |-> dish_name, per_plate |-> Scale, unit |-> "pcs",
             category |-> "Other"] >>

get_dish_ingredients_from_db(catalog, dish_name) ==
    LET i == FindDishIndex(catalog, dish_name) IN
    IF i # 0 /\ Len(catalog[i].ingredients) > 0
    THEN catalog[i].ingredients
    ELSE <<>>

\* the ValueError of to_base_unit not caught
ConvertWithoutFallback(ing_name, base_qty_for_10, ing_unit) ==
    to_base_unit(base_qty_for_10, ing_unit)

\* the try/except around to_base_unit: on ValueError the unit is inferred
\* from keywords of the ingredient name
ConvertWithFallback(ing_name, base_qty_for_10, ing_unit) ==
    LET r == to_base_unit(base_qty_for_10, ing_unit)
        n == Lower(ing_name)
    IN  IF r.ok THEN r
        ELSE IF Contains(n, MilkWord) THEN to_base_unit(base_qty_for_10, "ltr")
        ELSE IF AnyWordIn(n, FallbackOilWords) THEN to_base_unit(base_qty_for_10, "ml")
        ELSE IF AnyWordIn(n, FallbackGrainWords) THEN to_base_unit(base_qty_for_10, "kg")
        ELSE IF AnyWordIn(n, FallbackVegWords) THEN to_base_unit(base_qty_for_10, "kg")
        ELSE IF AnyWordIn(n, FallbackSpiceWords) THEN to_base_unit(base_qty_for_10, "gm")
        ELSE to_base_unit(base_qty_for_10, "gm")

\* the Oil and Fats rule tried before the Dairy rule
ClassifyByNameOilBeforeDairy(ing_name_lower) ==
    IF AnyWordIn(ing_name_lower, NonVegWords) THEN "Non-Vegetarian"
    ELSE IF AnyWordIn(ing_name_lower, VegetableWords) THEN "Vegetables"
    ELSE IF AnyWordIn(ing_name_lower, SpiceWords) THEN "Spices / Masala"
    ELSE IF AnyWordIn(ing_name_lower, OilFatWords) THEN "Oil and Fats"
    ELSE IF AnyWordIn(ing_name_lower, DairyWords) THEN "Dairy"
    ELSE IF AnyWordIn(ing_name_lower, FruitWords) THEN "Fruit"
    ELSE IF AnyWordIn(ing_name_lower, GrainWords) THEN "Grain"
    ELSE IF AnyWordIn(ing_name_lower, HerbWords) THEN "Herbs"
    ELSE IF AnyWordIn(ing_name_lower, BeverageWords) THEN "Beverages"
    ELSE IF AnyWordIn(ing_name_lower, SweetWords) THEN "Bakery & Sweets"
    ELSE "Other"

\* the keyword chain that infers a category from the lowercased name
ClassifyByName(ing_name_lower) ==
    IF AnyWordIn(ing_name_lower, NonVegWords) THEN "Non-Vegetarian"
    ELSE IF AnyWordIn(ing_name_lower, VegetableWords) THEN "Vegetables"
    ELSE IF AnyWordIn(ing_name_lower, SpiceWords) THEN "Spices / Masala"
    ELSE IF AnyWordIn(ing_name_lower, DairyWords) THEN "Dairy"
    ELSE IF AnyWordIn(ing_name_lower, FruitWords) THEN "Fruit"
    ELSE IF AnyWordIn(ing_name_lower, GrainWords) THEN "Grain"
    ELSE IF AnyWordIn(ing_name_lower, HerbWords) THEN "Herbs"
    ELSE IF AnyWordIn(ing_name_lower, BeverageWords) THEN "Beverages"
    ELSE IF AnyWordIn(ing_name_lower, OilFatWords) THEN "Oil and Fats"
    ELSE IF AnyWordIn(ing_name_lower, SweetWords) THEN "Bakery & Sweets"
    ELSE "Other"

\* ing.get("category", "") or the inferred category
ResolveCategory(ing) ==
    IF ing.category # "" THEN ing.category ELSE ClassifyByName(Lower(ing.name))

\* the dish quantity left out of the scaling
ScaledQtyPerGuestOnly(converted_qty, guests, quantity) ==
    (converted_qty \div 10) * guests

\* scaled_qty = (converted_qty / 10) * guests * quantity
ScaledQty(converted_qty, guests, quantity) ==
    (converted_qty \div 10) * guests * quantity

\* the keys of ingredient_totals compared without case
TotalsIndexIgnoringCase(totals, ing_name) ==
    IF \E i \in 1..Len(totals) : Lower(totals[i].name) = Lower(ing_name)
    THEN CHOOSE i \in 1..Len(totals) : Lower(totals[i].name) = Lower(ing_name)
    ELSE 0

\* position of ing_name among the keys of ingredient_totals, 0 when absent
TotalsIndex(totals, ing_name) ==
    IF \E i \in 1..Len(totals) : totals[i].name = ing_name
    THEN CHOOSE i \in 1..Len(totals) : totals[i].name = ing_name
    ELSE 0

\* the running total assigned instead of added to
AccumulateOverwriting(totals, ing, guests, quantity) ==
    LET conv == ConvertWithFallback(ing.name, ing.per_plate, NormUnit(ing.unit))
        scaled_qty == ScaledQty(conv.value, guests, quantity)
        i == TotalsIndex(totals, ing.name)
    IN  IF i # 0
        THEN [totals EXCEPT ![i].quantity = scaled_qty]
        ELSE Append(totals, [name |-> ing.name, quantity |-> scaled_qty,
                             base_unit |-> conv.unit,
                             category |-> ResolveCategory(ing)])

\* base unit and category taken from the latest occurrence of the name
AccumulateLatestUnitWins(totals, ing, guests, quantity) ==
    LET conv == ConvertWithFallback(ing.name, ing.per_plate, NormUnit(ing.unit))
        scaled_qty == ScaledQty(conv.value, guests, quantity)
        i == TotalsIndex(totals, ing.name)
    IN  IF i # 0
        THEN [totals EXCEPT ![i].quantity = @ + scaled_qty,
                            ![i].base_unit = conv.unit,
                            ![i].category = ResolveCategory(ing)]
        ELSE Append(totals, [name |-> ing.name, quantity |-> scaled_qty,
                             base_unit |-> conv.unit,
                             category |-> ResolveCategory(ing)])

\* one pass of the inner loop body: convert, scale and accumulate one entry
Accumulate(totals, ing, guests, quantity) ==
    LET conv == ConvertWithFallback(ing.name, ing.per_plate, NormUnit(ing.unit))
        scaled_qty == ScaledQty(conv.value, guests, quantity)
        i == TotalsIndex(totals, ing.name)
    IN  IF i # 0
        THEN [totals EXCEPT ![i].quantity = @ + scaled_qty]
        ELSE Append(totals, [name |-> ing.name, quantity |-> scaled_qty,
                             base_unit |-> conv.unit,
                             category |-> ResolveCategory(ing)])

RECURSIVE AccumulateDish(_, _, _, _, _)
\* for ing in ingredients, from position k
AccumulateDish(totals, ingredients, k, guests, quantity) ==
    IF k > Len(ingredients) THEN totals
    ELSE AccumulateDish(Accumulate(totals, ingredients[k], guests, quantity),
                        ingredients, k + 1, guests, quantity)

RECURSIVE AccumulateDishes(_, _, _, _, _)
\* for dish_item in dishes, from position k
AccumulateDishes(totals, catalog, dishes, k, guests) ==
    IF k > Len(dishes) THEN totals
    ELSE AccumulateDishes(
            AccumulateDish(totals,
                           get_dish_ingredients_from_db(catalog, dishes[k].dish_name),
                           1, guests, dishes[k].quantity),
            catalog, dishes, k + 1, guests)

\* ingredient_totals after the loops, in insertion order
IngredientTotals(catalog, guests, dishes) ==
    AccumulateDishes(<<>>, catalog, dishes, 1, guests)

\* category_order.get(category, 4)
CategoryOrder(category) ==
    CASE category = "Vegetables" -> 0
      [] category = "Non-Vegetarian" -> 1
      [] category = "Spices / Masala" -> 2
      [] category = "Dairy" -> 3
      [] category = "Fruit" -> 4
      [] category = "Grain" -> 5
      [] category = "Herbs" -> 6
      [] category = "Beverages" -> 7
      [] category = "Oil and Fats" -> 8
      [] category = "Bakery & Sweets" -> 9
      [] category = "Other" -> 10
      [] OTHER -> 4

\* the total listed as it is, in its base unit
DisplayEntryInBaseUnit(total) ==
    [name |-> total.name, quantity |-> total.quantity, unit |-> total.base_unit,
     category |-> total.category, checked |-> TRUE]

\* the entry appended to final_ingredients for one total
DisplayEntry(total) ==
    LET d == to_display_unit(total.quantity, total.base_unit) IN
    [name |-> total.name, quantity |-> d.value, unit |-> d.unit,
     category |-> total.category, checked |-> TRUE]

\* insert e behind every element whose key is not greater (stable)
InsertByCategory(sorted, e) ==
    LET n == Cardinality({i \in 1..Len(sorted) :
                            CategoryOrder(sorted[i].category) <= CategoryOrder(e.category)})
    IN  SubSeq(sorted, 1, n) \o <<e>> \o SubSeq(sorted, n + 1, Len(sorted))

RECURSIVE SortByCategory(_, _, _)
\* list.sort(key = category order): stable
SortByCategory(sorted, list, k) ==
    IF k > Len(list) THEN sorted
    ELSE SortByCategory(InsertByCategory(sorted, list[k]), list, k + 1)

\* the list generate_final_ingredients returns for a found booking
FinalIngredients(catalog, guests, dishes) ==
    LET totals == IngredientTotals(catalog, guests, dishes)
        listed == [i \in 1..Len(totals) |-> DisplayEntry(totals[i])]
    IN  SortByCategory(<<>>, listed, 1)

----------------------------------------------------------------------------
(* Names, dish catalog and request inputs used by the model *)

N_Rice == <<"R","i","c","e">>
N_Onion == <<"O","n","i","o","n">>
N_FreshMilk == <<"F","r","e","s","h"," ","M","i","l","k">>
N_Salt == <<"S","a","l","t">>
N_VegBiryani == <<"V","e","g"," ","B","i","r","y","a","n","i">>
N_vegbiryani == <<"v","e","g"," ","b","i","r","y","a","n","i">>
N_Raita == <<"R","a","i","t","a">>
N_Kheer == <<"K","h","e","e","r">>
N_Dal == <<"D","a","l">>

\* an ingredient template entry as create_dish stores it
Ing(n, q, u, c) == [name |-> n, per_plate |-> q, unit |-> u, category |-> c]

\* quantities in tenths: Tenths(5) is 0.5
Tenths(k) == k * (Scale \div 10)

\* the dishes collection of the lifecycle model
Menu ==
    << [name |-> N_VegBiryani,
        ingredients |-> << Ing(N_Rice, Tenths(10), "kg", "Grain"),
                           Ing(N_Onion, Tenths(5), "kg", "Vegetables") >>],
       [name |-> N_Raita,
        ingredients |-> << Ing(N_Onion, Tenths(2000), "g", "Vegetables"),
                           Ing(N_FreshMilk, Tenths(10), "litre", "Dairy") >>],
       [name |-> N_Kheer, ingredients |-> <<>>] >>

BookingIds == 1..MaxBookings

Requests == 1..MaxRequests

\* booking requests: guests, selected dishes (dish_id is a position in the
\* catalog, 0 is an id no dish has), event date and time slot
BookingInputs ==
    { [guests |-> 20, selected_dishes |-> << [dish_id |-> 1, quantity |-> 2] >>,
       event_date |-> "2026-01-10", time_slot |-> "Morning"],
      [guests |-> 25, selected_dishes |-> << [dish_id |-> 1, quantity |-> 1],
                                             [dish_id |-> 2, quantity |-> 1],
                                             [dish_id |-> 0, quantity |-> 1] >>,
       event_date |-> "2026-01-10", time_slot |-> "Night"],
      [guests |-> 0, selected_dishes |-> << [dish_id |-> 1, quantity |-> 1] >>,
       event_date |-> "2026-01-10", time_slot |-> "Afternoon"] }

\* dish names given to remove-dish
RemoveNames == {N_vegbiryani, N_Raita, N_Dal}

\* ingredient lists an admin submits to the manual update
ManualLists ==
    { << [name |-> N_Salt, quantity |-> 5 * Scale, unit |-> "kg",
          category |-> "Other", checked |-> FALSE] >>,
      << [name |-> N_Rice, quantity |-> 1 * Scale, unit |-> "kg",
          category |-> "Grain", checked |-> TRUE],
         [name |-> <<>>, quantity |-> 1 * Scale, unit |-> "g",
          category |-> "Other", checked |-> TRUE] >> }

\* status strings given to the status update
StatusInputs == {"Completed", "Shipped"}

----------------------------------------------------------------------------
(* State *)

VARIABLES
    orders,              \* orders collection: booking id -> document
    nextId,              \* number of booking documents ever inserted
    reserved_slots,      \* reserved_slots collection, in insertion order
    final_ingredients,   \* final_ingredients collection, in insertion order
    dishes_collection,   \* dishes collection, in insertion order
    resp,                \* the response of the last request handled alone
    reqs,                \* generate requests in flight: position and response
    admins_collection,   \* admins collection, in insertion order
    now                  \* datetime.utcnow(), in minutes

vars ==
    <<orders, nextId, reserved_slots, final_ingredients, dishes_collection,
      resp, reqs, admins_collection, now>>

\* models.create_admin: the document of a new admin (the stored password
\* stands for its hash)
NewAdmin(username, password) ==
    [username |-> username, password |-> password,
     login_attempts |-> 0, locked_until |-> Null]

\* the admins created before the server takes requests
InitialAdmins == << NewAdmin("admin", "secret") >>

\* the part of the state only the admin login touches
adminVars == <<admins_collection, now>>

\* no document under this _id
NoOrder ==
    [present |-> FALSE, guests |-> 0, dishes |-> <<>>, status |-> "",
     ingredients_sent |-> FALSE]

NoResp == [op |-> "none", booking_id |-> 0, code |-> 0, email |-> "none"]

\* a response: the handler, the booking, the status code, and for approve
\* what became of the finalization email ("none" where no email is involved)
Resp(op, b, code) ==
    [op |-> op, booking_id |-> b, code |-> code, email |-> "none"]

\* a generate request that has not arrived
IdleReq == [pc |-> "idle", booking_id |-> 0, code |-> 0]

\* positions of the documents of booking b in final_ingredients
ListsOf(coll, b) == {i \in 1..Len(coll) : coll[i].booking_id = b}

\* find_one / update_one / delete_one act on the first match
FirstListOf(coll, b) ==
    CHOOSE i \in ListsOf(coll, b) : \A j \in ListsOf(coll, b) : i <= j

\* delete position i of a sequence
RemoveAt(seq, i) == SubSeq(seq, 1, i - 1) \o SubSeq(seq, i + 1, Len(seq))

\* generate_final_ingredients(booking_id) returns None: orders_collection
\* has no document under the id
ReturnsNone(b) == ~orders[b].present

\* generate_final_ingredients(booking_id): None when the booking is missing
generate_final_ingredients(b) ==
    IF ReturnsNone(b)
    THEN [found |-> FALSE, ingredients |-> <<>>]
    ELSE [found |-> TRUE,
          ingredients |-> FinalIngredients(dishes_collection, orders[b].guests,
                                           orders[b].dishes)]

Init ==
    /\ admins_collection = InitialAdmins
    /\ now = 0
    /\ orders = [b \in BookingIds |-> NoOrder]
    /\ nextId = 0
    /\ reserved_slots = <<>>
    /\ final_ingredients = <<>>
    /\ dishes_collection = Menu
    /\ resp = NoResp
    /\ reqs = [r \in Requests |-> IdleReq]

----------------------------------------------------------------------------
(* Booking handlers: backend/bookings/routes.py, backend/models.py,        *)
(* backend/admin/api_routes.py                                             *)

check_slot_availability(date, time_slot) ==
    ~\E i \in 1..Len(reserved_slots) :
        /\ reserved_slots[i].date = date
        /\ reserved_slots[i].time_slot = time_slot

\* dish_details of create_booking: one line per selected dish found by id
RECURSIVE DishDetails(_, _)
DishDetails(selected, k) ==
    IF k > Len(selected) THEN <<>>
    ELSE (IF selected[k].dish_id \in 1..Len(dishes_collection)
          THEN << [dish_name |-> dishes_collection[selected[k].dish_id].name,
                   quantity |-> selected[k].quantity] >>
          ELSE <<>>) \o DishDetails(selected, k + 1)

\* POST /api/bookings/ : create_new_booking and models.create_booking
CreateBooking(inp) ==
    /\ UNCHANGED adminVars
    /\ IF inp.guests < 1 \/ inp.guests > 10000 \/ Len(inp.selected_dishes) = 0
       THEN /\ resp' = Resp("create", 0, 400)
            /\ UNCHANGED <<orders, nextId, reserved_slots, final_ingredients,
                           dishes_collection, reqs>>
       ELSE IF ~check_slot_availability(inp.event_date, inp.time_slot)
       THEN /\ resp' = Resp("create", 0, 409)
            /\ UNCHANGED <<orders, nextId, reserved_slots, final_ingredients,
                           dishes_collection, reqs>>
       ELSE /\ nextId < MaxBookings
            /\ nextId' = nextId + 1
            /\ orders' = [orders EXCEPT ![nextId + 1] =
                   [present |-> TRUE, guests |-> inp.guests,
                    dishes |-> DishDetails(inp.selected_dishes, 1),
                    status |-> "Pending", ingredients_sent |-> FALSE]]
            /\ reserved_slots' = Append(reserved_slots,
                   [date |-> inp.event_date, time_slot |-> inp.time_slot,
                    booking_id |-> nextId + 1])
            /\ resp' = Resp("create", nextId + 1, 201)
            /\ UNCHANGED <<final_ingredients, dishes_collection, reqs>>

\* models.update_booking_status: $set status on the booking, if it exists
update_booking_status(coll, b, status) ==
    IF coll[b].present THEN [coll EXCEPT ![b].status = status] ELSE coll

\* models.mark_ingredients_sent
mark_ingredients_sent(coll, b) ==
    IF coll[b].present THEN [coll EXCEPT ![b].ingredients_sent = TRUE] ELSE coll

\* PATCH /api/bookings/<id>/status : update_status
UpdateStatus(b, status) ==
    /\ UNCHANGED adminVars
    /\ IF status \notin {"Pending", "Confirmed", "Completed", "Cancelled"}
       THEN /\ resp' = Resp("status", b, 400)
            /\ UNCHANGED orders
       ELSE IF ~orders[b].present
       THEN /\ resp' = Resp("status", b, 404)
            /\ UNCHANGED orders
       ELSE /\ orders' = update_booking_status(orders, b, status)
            /\ resp' = Resp("status", b, 200)
    /\ UNCHANGED <<nextId, reserved_slots, final_ingredients, dishes_collection, reqs>>

\* the list of a deleted booking left in place
DeleteListSkipped(coll, b) == coll

\* final_ingredients_collection.delete_one({"booking_id": booking_id})
DeleteList(coll, b) ==
    IF ListsOf(coll, b) = {} THEN coll
    ELSE RemoveAt(coll, FirstListOf(coll, b))

\* DELETE /admin/api/bookings/<id> : delete_booking
DeleteBooking(b) ==
    /\ UNCHANGED adminVars
    /\ IF ~orders[b].present
       THEN /\ resp' = Resp("delete", b, 404)
            /\ UNCHANGED <<orders, final_ingredients>>
       ELSE IF orders[b].status \notin {"Completed", "Cancelled"}
       THEN /\ resp' = Resp("delete", b, 400)
            /\ UNCHANGED <<orders, final_ingredients>>
       ELSE /\ orders' = [orders EXCEPT ![b] = NoOrder]
            /\ final_ingredients' = DeleteList(final_ingredients, b)
            /\ resp' = Resp("delete", b, 200)
    /\ UNCHANGED <<nextId, reserved_slots, dishes_collection, reqs>>

----------------------------------------------------------------------------
(* Final-ingredient-list handlers: backend/ingredients/routes.py *)

\* the document generate inserts
NewList(b, ingredients) ==
    [booking_id |-> b, ingredients |-> ingredients,
     approved_by_admin |-> FALSE, approved_at |-> Null]

\* the document an upsert inserts: booking_id and the $set fields only; the
\* approval fields are absent and read as their .get() defaults
UpsertedList(b, ingredients) ==
    [booking_id |-> b, ingredients |-> ingredients,
     approved_by_admin |-> FALSE, approved_at |-> Null]

\* the new entries appended to the stored ones instead of replacing them
SetIngredientsMerging(coll, b, ingredients) ==
    IF ListsOf(coll, b) = {} THEN coll
    ELSE [coll EXCEPT ![FirstListOf(coll, b)].ingredients = @ \o ingredients]

\* only the first stored entry replaced
SetIngredientsFirstEntryOnly(coll, b, ingredients) ==
    IF ListsOf(coll, b) = {} THEN coll
    ELSE [coll EXCEPT ![FirstListOf(coll, b)].ingredients =
            IF Len(@) = 0 \/ Len(ingredients) = 0 THEN ingredients
            ELSE <<ingredients[1]>> \o Tail(@)]

\* an approved list refused to the update
SetIngredientsUnlessApproved(coll, b, ingredients) ==
    IF ListsOf(coll, b) = {} \/ coll[FirstListOf(coll, b)].approved_by_admin THEN coll
    ELSE [coll EXCEPT ![FirstListOf(coll, b)].ingredients = ingredients]

\* the new entries put in front of the stored ones
SetIngredientsPrepending(coll, b, ingredients) ==
    IF ListsOf(coll, b) = {} THEN coll
    ELSE [coll EXCEPT ![FirstListOf(coll, b)].ingredients = ingredients \o @]

\* update_one({"booking_id": b}, {"$set": {"ingredients": ...}})
SetIngredients(coll, b, ingredients) ==
    IF ListsOf(coll, b) = {} THEN coll
    ELSE [coll EXCEPT ![FirstListOf(coll, b)].ingredients = ingredients]

\* the existence check left out: every generate request goes on to insert
GenerateGuardSkipped(coll, b) == FALSE

\* the existence check of generate: find_one({"booking_id": b})
GenerateGuard(coll, b) == ListsOf(coll, b) # {}

\* POST .../booking/<id>/generate : generate_booking_ingredients
Generate(b) ==
    /\ UNCHANGED adminVars
    /\ IF GenerateGuard(final_ingredients, b)
       THEN /\ resp' = Resp("generate", b, 400)
            /\ UNCHANGED final_ingredients
       ELSE IF ReturnsNone(b)
       THEN /\ resp' = Resp("generate", b, 404)
            /\ UNCHANGED final_ingredients
       ELSE /\ final_ingredients' = Append(final_ingredients,
                    NewList(b, generate_final_ingredients(b).ingredients))
            /\ resp' = Resp("generate", b, 200)
    /\ UNCHANGED <<orders, nextId, reserved_slots, dishes_collection, reqs>>

\* the name check left out of the manual update
HasUnnamedEntryIgnored(ingredients) == FALSE

\* `not ing.get("name")` for some submitted entry
HasUnnamedEntry(ingredients) ==
    \E i \in 1..Len(ingredients) : ingredients[i].name = <<>>

\* PUT .../booking/<id> : update_booking_final_ingredients
UpdateManual(b, ingredients) ==
    /\ UNCHANGED adminVars
    /\ IF HasUnnamedEntry(ingredients)
       THEN /\ resp' = Resp("update", b, 400)
            /\ UNCHANGED final_ingredients
       ELSE IF ListsOf(final_ingredients, b) = {}
       THEN /\ resp' = Resp("update", b, 404)
            /\ UNCHANGED final_ingredients
       ELSE /\ final_ingredients' = SetIngredients(final_ingredients, b, ingredients)
            /\ resp' = Resp("update", b, 200)
    /\ UNCHANGED <<orders, nextId, reserved_slots, dishes_collection, reqs>>

\* update_one({"booking_id": b}, {"$set": {"approved_by_admin": True, "approved_at": now}})
SetApproved(coll, b, t) ==
    IF ListsOf(coll, b) = {} THEN coll
    ELSE [coll EXCEPT ![FirstListOf(coll, b)].approved_by_admin = TRUE,
                      ![FirstListOf(coll, b)].approved_at = t]

\* send_ingredients_finalization_email(customer_email=, customer_name=,
\* booking_details=, ingredients_list=): the function has no parameter
\* ingredients_list (its fourth is pdf_buffer), so the call raises TypeError
send_ingredients_finalization_email == "raised"

\* the email step of approve: attempted when the booking is found and the
\* stored list is not empty
FinalizationEmail(coll, b) ==
    IF orders[b].present /\ ListsOf(coll, b) # {}
          /\ coll[FirstListOf(coll, b)].ingredients # <<>>
    THEN send_ingredients_finalization_email
    ELSE "skipped"

\* the exception of the email step reaching the handler's outer except
ApproveCodePropagating(email) == IF email = "raised" THEN 500 ELSE 200

\* the status code of approve once the list is marked: the inner except
\* keeps an exception of the email step from the response
ApproveCode(email) == 200

\* POST .../booking/<id>/approve : approve_booking_final_ingredients
Approve(b) ==
    /\ UNCHANGED adminVars
    /\ IF ListsOf(final_ingredients, b) = {}
       THEN /\ resp' = Resp("approve", b, 404)
            /\ UNCHANGED <<final_ingredients, orders>>
       ELSE /\ final_ingredients' = SetApproved(final_ingredients, b, UtcNow)
            /\ orders' = update_booking_status(mark_ingredients_sent(orders, b),
                                               b, "APPROVED")
            /\ resp' = [Resp("approve", b,
                              ApproveCode(FinalizationEmail(final_ingredients, b)))
                            EXCEPT !.email = FinalizationEmail(final_ingredients, b)]
    /\ UNCHANGED <<nextId, reserved_slots, dishes_collection, reqs>>

\* POST .../booking/<id>/regenerate : regenerate_booking_ingredients
Regenerate(b) ==
    /\ UNCHANGED adminVars
    /\ IF ListsOf(final_ingredients, b) = {}
       THEN /\ resp' = Resp("regenerate", b, 404)
            /\ UNCHANGED final_ingredients
       ELSE IF ReturnsNone(b)
       THEN /\ resp' = Resp("regenerate", b, 404)
            /\ UNCHANGED final_ingredients
       ELSE /\ final_ingredients' = SetIngredients(final_ingredients, b,
                    generate_final_ingredients(b).ingredients)
            /\ resp' = Resp("regenerate", b, 200)
    /\ UNCHANGED <<orders, nextId, reserved_slots, dishes_collection, reqs>>

RECURSIVE PullDishFrom(_, _, _)
\* the dish lines from position k on that do not match dish_name
PullDishFrom(dishes, dish_name, k) ==
    IF k > Len(dishes) THEN <<>>
    ELSE (IF RegexIEquals(dishes[k].dish_name, dish_name) THEN <<>> ELSE <<dishes[k]>>)
         \o PullDishFrom(dishes, dish_name, k + 1)

\* only the first matching dish line pulled
PullDishFirstOnly(dishes, dish_name) ==
    IF \E i \in 1..Len(dishes) : RegexIEquals(dishes[i].dish_name, dish_name)
    THEN RemoveAt(dishes,
            CHOOSE i \in 1..Len(dishes) :
                /\ RegexIEquals(dishes[i].dish_name, dish_name)
                /\ \A j \in 1..(i - 1) : ~RegexIEquals(dishes[j].dish_name, dish_name))
    ELSE dishes

\* {"$pull": {"dishes": {"dish_name": {"$regex": "^dish_name$", "$options": "i"}}}}
PullDish(dishes, dish_name) == PullDishFrom(dishes, dish_name, 1)

\* the regeneration entered whether or not a dish line was pulled
PullModifiedAlways(dishes, dish_name) == TRUE

\* result.modified_count > 0 after the $pull
PullModified(dishes, dish_name) == PullDish(dishes, dish_name) # dishes

\* an insert on every call, whether or not a document matches
UpsertAlwaysInserting(coll, b, ingredients) ==
    Append(coll, UpsertedList(b, ingredients))

\* the matched document replaced as a whole instead of $set on one field
UpsertReplacingDocument(coll, b, ingredients) ==
    IF ListsOf(coll, b) = {}
    THEN Append(coll, UpsertedList(b, ingredients))
    ELSE [coll EXCEPT ![FirstListOf(coll, b)] = UpsertedList(b, ingredients)]

\* update_one(..., upsert=True) of remove-dish
UpsertIngredients(coll, b, ingredients) ==
    IF ListsOf(coll, b) = {}
    THEN Append(coll, UpsertedList(b, ingredients))
    ELSE SetIngredients(coll, b, ingredients)

\* DELETE .../booking/<id>/remove-dish/<dish_name> : remove_dish_from_booking
RemoveDish(b, dish_name) ==
    /\ UNCHANGED adminVars
    /\ IF ~orders[b].present
       THEN /\ resp' = Resp("remove-dish", b, 404)
            /\ UNCHANGED <<orders, final_ingredients>>
       ELSE IF ~PullModified(orders[b].dishes, dish_name)
       THEN /\ resp' = Resp("remove-dish", b, 404)
            /\ UNCHANGED <<orders, final_ingredients>>
       ELSE /\ orders' = [orders EXCEPT ![b].dishes = PullDish(@, dish_name)]
            /\ final_ingredients' = UpsertIngredients(final_ingredients, b,
                    FinalIngredients(dishes_collection, orders[b].guests,
                                     PullDish(orders[b].dishes, dish_name)))
            /\ resp' = Resp("remove-dish", b, 200)
    /\ UNCHANGED <<nextId, reserved_slots, dishes_collection, reqs>>

Next ==
    \/ \E inp \in BookingInputs : CreateBooking(inp)
    \/ \E b \in BookingIds, st \in StatusInputs : UpdateStatus(b, st)
    \/ \E b \in BookingIds : DeleteBooking(b)
    \/ \E b \in BookingIds : Generate(b)
    \/ \E b \in BookingIds, ings \in ManualLists : UpdateManual(b, ings)
    \/ \E b \in BookingIds : Approve(b)
    \/ \E b \in BookingIds : Regenerate(b)
    \/ \E b \in BookingIds, dn \in RemoveNames : RemoveDish(b, dn)

\* requests are handled one at a time, each handler running to completion
Spec == Init /\ [][Next]_vars

----------------------------------------------------------------------------
(* Overlapping generate requests: the handler's two storage calls,         *)
(* find_one and insert_one, are separate steps of a request                *)

\* generate_booking_ingredients up to the existence check
GenerateCheck(r, b) ==
    /\ UNCHANGED adminVars
    /\ reqs[r].pc = "idle"
    /\ reqs' = [reqs EXCEPT ![r] =
            IF GenerateGuard(final_ingredients, b)
            THEN [pc |-> "done", booking_id |-> b, code |-> 400]
            ELSE [pc |-> "insert", booking_id |-> b, code |-> 0]]
    /\ UNCHANGED <<orders, nextId, reserved_slots, final_ingredients,
                   dishes_collection, resp>>

\* generate_booking_ingredients from generate_final_ingredients to the response
GenerateInsert(r) ==
    /\ UNCHANGED adminVars
    /\ reqs[r].pc = "insert"
    /\ IF ReturnsNone(reqs[r].booking_id)
       THEN /\ reqs' = [reqs EXCEPT ![r].pc = "done", ![r].code = 404]
            /\ UNCHANGED final_ingredients
       ELSE /\ final_ingredients' = Append(final_ingredients,
                    NewList(reqs[r].booking_id,
                            generate_final_ingredients(reqs[r].booking_id).ingredients))
            /\ reqs' = [reqs EXCEPT ![r].pc = "done", ![r].code = 200]
    /\ UNCHANGED <<orders, nextId, reserved_slots, dishes_collection, resp>>

NextRace ==
    \/ \E inp \in BookingInputs : CreateBooking(inp)
    \/ \E b \in BookingIds, st \in StatusInputs : UpdateStatus(b, st)
    \/ \E b \in BookingIds : DeleteBooking(b)
    \/ \E r \in Requests, b \in BookingIds : GenerateCheck(r, b)
    \/ \E r \in Requests : GenerateInsert(r)

\* generate requests may overlap each other and the booking handlers
SpecRace == Init /\ [][NextRace]_vars

----------------------------------------------------------------------------
(* The aggregation computation over a range of bookings and templates *)

GenUnits == {"kg", "g", "oz", "lb", "mg", "litre", "ml", "pcs"}

GenQuantities == {Tenths(5), Tenths(10)}

\* catalogs: Veg Biryani has one template entry of any unit and quantity,
\* Raita shares the ingredient name Rice with it
GenCatalogs ==
    { << [name |-> N_VegBiryani,
          ingredients |-> << Ing(N_Rice, q, u, "Grain") >>],
         [name |-> N_Raita,
          ingredients |-> << Ing(N_Onion, Tenths(5), "kg", "Vegetables"),
                             Ing(N_Rice, Tenths(2000), "g", "Grain") >>] >> :
        q \in GenQuantities, u \in GenUnits }

Line(n, d) == [dish_name |-> n, quantity |-> d]

\* dish lines of a booking: one line, or two lines in either order
GenDishLines ==
    UNION { { << Line(N_VegBiryani, d) >>,
              << Line(N_VegBiryani, d), Line(N_Raita, 1) >>,
              << Line(N_Raita, d), Line(N_VegBiryani, 1) >>,
              << Line(N_VegBiryani, d), Line(N_VegBiryani, 1) >> } : d \in 1..MaxDishQty }

InitGen ==
    /\ admins_collection = InitialAdmins
    /\ now = 0
    /\ \E g \in 1..MaxGuests, lines \in GenDishLines :
          orders = [b \in BookingIds |->
                      IF b = 1
                      THEN [present |-> TRUE, guests |-> g, dishes |-> lines,
                            status |-> "Pending", ingredients_sent |-> FALSE]
                      ELSE NoOrder]
    /\ nextId = 1
    /\ reserved_slots = << [date |-> "2026-01-10", time_slot |-> "Morning",
                            booking_id |-> 1] >>
    /\ final_ingredients = <<>>
    /\ dishes_collection \in GenCatalogs
    /\ resp = NoResp
    /\ reqs = [r \in Requests |-> IdleReq]

NextGen ==
    \/ \E b \in BookingIds : Generate(b)
    \/ \E b \in BookingIds : Regenerate(b)
    \/ \E b \in BookingIds, dn \in RemoveNames : RemoveDish(b, dn)

\* generate, regenerate and remove-dish applied to each such booking
SpecGen == InitGen /\ [][NextGen]_vars

----------------------------------------------------------------------------
(* The aggregation computation over templates that validate_ingredients    *)
(* would and would not accept: every category in varying input order,      *)
(* unrecognized units, dish lines without a template, mass quantities      *)
(* around the kg threshold                                                 *)

N_Ghee == <<"G","h","e","e">>
N_Cumin == <<"C","u","m","i","n">>
N_Paneer == <<"P","a","n","e","e","r">>
N_Thali == <<"T","h","a","l","i">>

\* valid_categories of validate_ingredients, in the order it lists them
Categories ==
    << "Vegetables", "Non-Vegetarian", "Spices / Masala", "Dairy", "Fruit",
       "Dry Fruits", "Grain", "Herbs", "Beverages", "Oil and Fats",
       "Bakery & Sweets", "Other" >>

\* the name of the template entry of category k: "item a" .. "item l"
ItemName(k) ==
    <<"i","t","e","m"," ">> \o
    << <<"a","b","c","d","e","f","g","h","i","j","k","l">>[k] >>

\* positions i and j of a sequence exchanged
Swap(seq, i, j) == [seq EXCEPT ![i] = seq[j], ![j] = seq[i]]

\* input orders of the twelve entries: as listed, reversed, and as listed
\* with any two entries exchanged
SortOrders ==
    LET listed == [k \in 1..Len(Categories) |-> k] IN
    {listed, [k \in 1..Len(Categories) |-> Len(Categories) + 1 - k]}
        \cup {Swap(listed, i, j) : i, j \in 1..Len(Categories)}

\* a booking with its catalog
Scenario(catalog, guests, lines) ==
    [catalog |-> catalog, guests |-> guests, dishes |-> lines]

\* one dish whose template has one entry of every category
SortScenarios ==
    { Scenario(<< [name |-> N_Thali,
                   ingredients |->
                       [k \in 1..Len(Categories) |->
                           Ing(ItemName(order[k]), Tenths(10), "kg",
                               Categories[order[k]])]] >>,
               10, << Line(N_Thali, 1) >>) : order \in SortOrders }

\* units to_base_unit does not know
UnknownUnits == {"", "handful"}

\* one dish whose only template entry has no usable unit and no category
FallbackScenarios ==
    { Scenario(<< [name |-> N_Kheer,
                   ingredients |-> << Ing(n, q, u, "") >>] >>,
               20, << Line(N_Kheer, 1) >>) :
        n \in {N_FreshMilk, N_Rice, N_Onion, N_Salt, N_Ghee, N_Cumin, N_Paneer},
        q \in GenQuantities, u \in UnknownUnits }

\* bookings over Menu with lines of Kheer (no template) and Dal (no dish)
MissingScenarios ==
    { Scenario(Menu, 20, lines) :
        lines \in { << Line(N_VegBiryani, 1) >>,
                    << Line(N_VegBiryani, 1), Line(N_Kheer, 1) >>,
                    << Line(N_Kheer, 2), Line(N_VegBiryani, 1) >>,
                    << Line(N_VegBiryani, 1), Line(N_Dal, 1), Line(N_Raita, 1) >>,
                    << Line(N_Dal, 1) >>,
                    << Line(N_Kheer, 1) >>,
                    << Line(N_Kheer, 1), Line(N_Dal, 2) >> } }

MassUnits == {"kg", "g", "oz", "lb", "mg"}

\* (value, unit) pairs on both sides of 1000 g
MassInputs ==
    ({Tenths(1), Tenths(5), Tenths(10), Tenths(25)} \X MassUnits)
        \cup { <<Tenths(352), "oz">>, <<Tenths(353), "oz">>,
               <<Tenths(22), "lb">>, <<Tenths(23), "lb">>,
               <<Tenths(9999), "g">>, <<Tenths(10000), "g">>,
               <<Tenths(10001), "g">>, <<Tenths(9), "kg">> }

\* one dish with one mass entry, ten guests, one serving: the total is the
\* converted per-ten-guests quantity
UnitScenarios ==
    { Scenario(<< [name |-> N_VegBiryani,
                   ingredients |-> << Ing(N_Rice, vu[1], vu[2], "Grain") >>] >>,
               10, << Line(N_VegBiryani, 1) >>) : vu \in MassInputs }

\* twenty guests, Veg Biryani twice, Rice 1 kg per ten guests
RiceScenario ==
    Scenario(<< [name |-> N_VegBiryani,
                 ingredients |-> << Ing(N_Rice, Tenths(10), "kg", "Grain") >>] >>,
             20, << Line(N_VegBiryani, 2) >>)

\* names that carry keywords of one or of several category rules
KeywordNames ==
    << <<"C","h","i","c","k","e","n"," ","M","a","s","a","l","a">>,
       <<"C","o","r","i","a","n","d","e","r">>,
       <<"B","u","t","t","e","r">>,
       <<"M","a","n","g","o"," ","J","u","i","c","e">>,
       <<"B","i","r","y","a","n","i"," ","R","i","c","e">>,
       <<"B","a","s","i","l"," ","T","e","a">>,
       <<"G","r","e","e","n"," ","T","e","a">>,
       <<"O","l","i","v","e"," ","O","i","l">>,
       <<"S","u","g","a","r">>,
       N_Salt, N_FreshMilk, N_Rice, N_Onion >>

\* one dish whose template entries all have no category, or all the category
\* given
CategoryScenarios ==
    { Scenario(<< [name |-> N_Thali,
                   ingredients |->
                       [k \in 1..Len(KeywordNames) |->
                           Ing(KeywordNames[k], Tenths(10), "kg", c)]] >>,
               10, << Line(N_Thali, 1) >>) : c \in {"", "Other", "Dry Fruits"} }

\* Onion and onion in one template, Onion again in a second dish
NameScenarios ==
    { Scenario(<< [name |-> N_VegBiryani,
                   ingredients |-> << Ing(N_Onion, Tenths(5), "kg", "Vegetables"),
                                      Ing(Lower(N_Onion), Tenths(2), "kg", "Vegetables") >>],
                  [name |-> N_Raita,
                   ingredients |-> << Ing(N_Onion, Tenths(2000), "g", "Vegetables") >>] >>,
               20, lines) :
        lines \in { << Line(N_VegBiryani, 1), Line(N_Raita, 1) >>,
                    << Line(N_Raita, 2), Line(N_VegBiryani, 1) >>,
                    << Line(N_VegBiryani, 1) >> } }

\* Onion by weight in one dish, by the piece and under another category in
\* the other
MixedUnitScenarios ==
    { Scenario(<< [name |-> N_VegBiryani,
                   ingredients |-> << Ing(N_Onion, Tenths(5), "kg", "Vegetables"),
                                      Ing(N_Rice, Tenths(10), "kg", "Grain") >>],
                  [name |-> N_Raita,
                   ingredients |-> << Ing(N_Onion, Tenths(20), "pcs", "Other"),
                                      Ing(N_Rice, Tenths(5), "litre", "") >>] >>,
               20, lines) :
        lines \in { << Line(N_VegBiryani, 1), Line(N_Raita, 1) >>,
                    << Line(N_Raita, 1), Line(N_VegBiryani, 2) >>,
                    << Line(N_Raita, 1), Line(N_VegBiryani, 1), Line(N_Raita, 2) >> } }

Scenarios ==
    SortScenarios \cup FallbackScenarios \cup MissingScenarios
        \cup UnitScenarios \cup {RiceScenario}
        \cup CategoryScenarios \cup NameScenarios \cup MixedUnitScenarios

InitTemplates ==
    /\ admins_collection = InitialAdmins
    /\ now = 0
    /\ \E sc \in Scenarios :
          /\ orders = [b \in BookingIds |->
                         IF b = 1
                         THEN [present |-> TRUE, guests |-> sc.guests,
                               dishes |-> sc.dishes, status |-> "Pending",
                               ingredients_sent |-> FALSE]
                         ELSE NoOrder]
          /\ dishes_collection = sc.catalog
    /\ nextId = 1
    /\ reserved_slots = << [date |-> "2026-01-10", time_slot |-> "Morning",
                            booking_id |-> 1] >>
    /\ final_ingredients = <<>>
    /\ resp = NoResp
    /\ reqs = [r \in Requests |-> IdleReq]

NextTemplates ==
    \/ \E b \in BookingIds : Generate(b)
    \/ \E b \in BookingIds : Regenerate(b)

\* generate and regenerate applied to each such booking
SpecTemplates == InitTemplates /\ [][NextTemplates]_vars

----------------------------------------------------------------------------
(* Dish authoring: backend/dishes/admin_routes.py *)

\* unit.strip() on the unit tokens that occur in the model
StripUnit(unit) == IF unit = " kg " THEN "kg" ELSE unit

valid_units ==
    {"g", "kg", "oz", "lb", "mg", "ml", "l", "litre", "cup", "tbsp", "tsp",
     "pcs", "packet", "bunch", "dozen", "slice", "can", "bottle"}

valid_categories == {Categories[k] : k \in 1..Len(Categories)}

\* the unit test of every entry left out
validate_ingredients_any_unit(ingredients) ==
    \A i \in 1..Len(ingredients) :
        /\ ingredients[i].name # <<>>
        /\ ingredients[i].per_plate > 0
        /\ ingredients[i].category \in valid_categories

\* validate_ingredients(ingredients) for a list of entries
validate_ingredients(ingredients) ==
    \A i \in 1..Len(ingredients) :
        /\ ingredients[i].name # <<>>
        /\ ingredients[i].per_plate > 0
        /\ StripUnit(ingredients[i].unit) \in valid_units
        /\ ingredients[i].category \in valid_categories

\* ingredient lists submitted with a dish
TemplateInputs ==
    { << Ing(N_Rice, Tenths(10), "kg", "Grain"),
         Ing(N_Onion, Tenths(5), " kg ", "Vegetables") >>,
      << Ing(N_FreshMilk, Tenths(10), "litre", "Dairy") >>,
      << Ing(N_Ghee, Tenths(1), "cup", "Oil and Fats"),
         Ing(N_Cumin, Tenths(2), "tsp", "Spices / Masala"),
         Ing(N_Onion, Tenths(20), "pcs", "Vegetables") >>,
      << >>,
      << Ing(N_Rice, Tenths(10), "handful", "Grain") >>,
      << Ing(N_Rice, Tenths(10), "KG", "Grain") >>,
      << Ing(N_Rice, 0, "kg", "Grain") >>,
      << Ing(N_Rice, Tenths(10), "kg", "Grain"),
         Ing(N_Salt, Tenths(10), "", "Other") >>,
      << Ing(<<>>, Tenths(10), "kg", "Grain") >>,
      << Ing(N_Rice, Tenths(10), "kg", "Cereal") >> }

\* create-dish requests: name, price and ingredient list
DishInputs ==
    { [name |-> n, price |-> 150, ingredients |-> t] :
        n \in {N_VegBiryani, N_vegbiryani, N_Raita, <<>>}, t \in TemplateInputs }
      \cup { [name |-> N_Kheer, price |-> 0, ingredients |-> << >>] }

\* POST /api/admin/dishes/ : create_dish
CreateDish(inp) ==
    /\ UNCHANGED adminVars
    /\ Len(dishes_collection) < MaxDishes
    /\ IF inp.name = <<>> \/ inp.price <= 0
       THEN /\ resp' = Resp("create-dish", 0, 400)
            /\ UNCHANGED dishes_collection
       ELSE IF FindDishIndex(dishes_collection, inp.name) # 0
       THEN /\ resp' = Resp("create-dish", 0, 400)
            /\ UNCHANGED dishes_collection
       ELSE IF inp.ingredients # <<>> /\ ~validate_ingredients(inp.ingredients)
       THEN /\ resp' = Resp("create-dish", 0, 400)
            /\ UNCHANGED dishes_collection
       ELSE /\ dishes_collection' =
                  Append(dishes_collection,
                         [name |-> inp.name, ingredients |-> inp.ingredients])
            /\ resp' = Resp("create-dish", 0, 201)
    /\ UNCHANGED <<orders, nextId, reserved_slots, final_ingredients, reqs>>

\* an empty catalog and one booking of Veg Biryani and Raita
InitDishes ==
    /\ admins_collection = InitialAdmins
    /\ now = 0
    /\ orders = [b \in BookingIds |->
                   IF b = 1
                   THEN [present |-> TRUE, guests |-> 20,
                         dishes |-> << Line(N_VegBiryani, 1), Line(N_Raita, 1) >>,
                         status |-> "Pending", ingredients_sent |-> FALSE]
                   ELSE NoOrder]
    /\ nextId = 1
    /\ reserved_slots = << [date |-> "2026-01-10", time_slot |-> "Morning",
                            booking_id |-> 1] >>
    /\ final_ingredients = <<>>
    /\ dishes_collection = <<>>
    /\ resp = NoResp
    /\ reqs = [r \in Requests |-> IdleReq]

NextDishes ==
    \/ \E inp \in DishInputs : CreateDish(inp)
    \/ \E b \in BookingIds : Generate(b)
    \/ \E b \in BookingIds : Regenerate(b)

\* dishes are authored while the booking's list is generated and regenerated
SpecDishes == InitDishes /\ [][NextDishes]_vars

----------------------------------------------------------------------------
(* Properties *)

\* the list of booking b in a collection (the document find_one returns)
ListIn(coll, b) == coll[FirstListOf(coll, b)]

\* the stored list of booking b
ListOf(b) == ListIn(final_ingredients, b)

\* what the aggregation yields for booking b as it is now
Recomputed(b) ==
    FinalIngredients(dishes_collection, orders[b].guests, orders[b].dishes)

HasList(b) == ListsOf(final_ingredients, b) # {}

\* C1: a generate request for a booking that already has a list is answered
\* with the already-exists failure (400) and leaves the final_ingredients
\* collection, hence the list's ingredients, approved_by_admin and
\* approved_at, exactly as it was.
C1_GenerateRejectedWhenListExists ==
    [][\A b \in BookingIds :
          (resp'.op = "generate" /\ HasList(b) /\ Generate(b)) =>
              /\ resp' = Resp("generate", b, 400)
              /\ final_ingredients' = final_ingredients
              /\ orders' = orders]_vars

\* C1 witness: a generate request was rejected for a booking whose list is
\* approved and stays stored
C1_Witness ==
    \E b \in BookingIds :
        /\ resp = Resp("generate", b, 400)
        /\ HasList(b)
        /\ ListOf(b).approved_by_admin
        /\ ListOf(b).approved_at # Null

\* C2: of the generate requests that overlap for one booking, at most one
\* reports success, and at most one list document is stored for the booking.
C2_AtMostOneGenerateSucceeds ==
    \A b \in BookingIds :
        /\ Cardinality({r \in Requests :
                            reqs[r].booking_id = b /\ reqs[r].code = 200}) <= 1
        /\ Cardinality(ListsOf(final_ingredients, b)) <= 1

\* the base-unit total recorded under a name, 0 when the name is absent
QtyOf(totals, ing_name) ==
    IF TotalsIndex(totals, ing_name) = 0 THEN 0
    ELSE totals[TotalsIndex(totals, ing_name)].quantity

\* the totals of the booking that has only the dish line `line`
LineTotals(b, line) ==
    IngredientTotals(dishes_collection, orders[b].guests, <<line>>)

\* the totals of booking b over all its dish lines
BookingTotals(b) ==
    IngredientTotals(dishes_collection, orders[b].guests, orders[b].dishes)

\* the template of the dish of a dish line
TemplateOf(line) == get_dish_ingredients_from_db(dishes_collection, line.dish_name)

NamesOf(totals) == {totals[i].name : i \in 1..Len(totals)}

C4_AggregationAdditivity ==
    \A b \in BookingIds :
        (orders[b].present /\ Len(orders[b].dishes) = 2) =>
            LET first == LineTotals(b, orders[b].dishes[1])
                second == LineTotals(b, orders[b].dishes[2])
                both == BookingTotals(b)
            IN  \A n \in NamesOf(first) \cap NamesOf(second) :
                    /\ Cardinality({i \in 1..Len(both) : both[i].name = n}) = 1
                    /\ QtyOf(both, n) = QtyOf(first, n) + QtyOf(second, n)
                    /\ resp = Resp("generate", b, 200) =>
                          /\ HasList(b)
                          /\ Cardinality({i \in 1..Len(ListOf(b).ingredients) :
                                            ListOf(b).ingredients[i].name = n}) = 1

\* C4 witness: generate has stored the list of a booking whose two dish
\* lines are different dishes that both contain Rice
C4_Witness ==
    \E b \in BookingIds :
        /\ resp = Resp("generate", b, 200)
        /\ Len(orders[b].dishes) = 2
        /\ orders[b].dishes[1].dish_name # orders[b].dishes[2].dish_name
        /\ QtyOf(LineTotals(b, orders[b].dishes[1]), N_Rice) > 0
        /\ QtyOf(LineTotals(b, orders[b].dishes[2]), N_Rice) > 0
        /\ HasList(b)
        /\ \E i \in 1..Len(ListOf(b).ingredients) : ListOf(b).ingredients[i].name = N_Rice

\* C5: a regenerate request for a booking that exists and has a list
\* succeeds, and afterwards the list's ingredients are the aggregation over
\* the booking's current guest count and dish lines, whatever the list held
\* before (generated or manually edited entries).
C5_RegenerateOverwrites ==
    [][\A b \in BookingIds :
          (resp'.op = "regenerate" /\ HasList(b) /\ orders[b].present /\ Regenerate(b)) =>
              /\ resp' = Resp("regenerate", b, 200)
              /\ ListsOf(final_ingredients', b) # {}
              /\ ListIn(final_ingredients', b).ingredients = Recomputed(b)]_vars

\* C5 witness: regenerate has succeeded and the stored list is the
\* recomputed, non-empty one, none of the manually submitted lists
C5_Witness ==
    \E b \in BookingIds :
        /\ resp = Resp("regenerate", b, 200)
        /\ HasList(b)
        /\ ListOf(b).ingredients = Recomputed(b)
        /\ ListOf(b).ingredients # <<>>
        /\ ListOf(b).ingredients \notin ManualLists

\* C6: regenerate is all-or-nothing.  It either answers success and replaces
\* the ingredients of the booking's list by the complete recomputed list,
\* every other field and document unchanged, or it answers 404 (no list, or
\* booking not found) and leaves the collection unchanged; the booking is
\* never changed.
C6_RegenerateAllOrNothing ==
    [][\A b \in BookingIds :
          (resp'.op = "regenerate" /\ Regenerate(b)) =>
              /\ orders' = orders
              /\ \/ /\ HasList(b) /\ orders[b].present
                    /\ resp'.code = 200
                    /\ final_ingredients' =
                          [final_ingredients EXCEPT
                              ![FirstListOf(final_ingredients, b)].ingredients =
                                  Recomputed(b)]
                 \/ /\ ~HasList(b) \/ ~orders[b].present
                    /\ resp'.code = 404
                    /\ final_ingredients' = final_ingredients]_vars

\* C6 witness: regenerate has failed for a booking that exists but has no
\* list, and no list was stored
C6_Witness ==
    \E b \in BookingIds :
        /\ resp = Resp("regenerate", b, 404)
        /\ orders[b].present
        /\ ~HasList(b)

\* C7: for a booking that has no list, regenerate, manual update, approve
\* and remove-dish do not create one.
C7_OnlyGenerateCreatesList ==
    [][\A b \in BookingIds :
          ( /\ ~HasList(b)
            /\ resp'.op \in {"regenerate", "approve", "update", "remove-dish"}
            /\ \/ Regenerate(b)
               \/ Approve(b)
               \/ \E ings \in ManualLists : UpdateManual(b, ings)
               \/ \E dn \in RemoveNames : RemoveDish(b, dn) ) =>
              ListsOf(final_ingredients', b) = {}]_vars

\* C8: with requests handled one at a time, no booking_id has more than one
\* document in the final_ingredients collection.
C8_AtMostOneListPerBooking ==
    \A b \in BookingIds : Cardinality(ListsOf(final_ingredients, b)) <= 1

\* C8 witness: remove-dish has run on a booking that has a list, and the
\* booking still has exactly one
C8_Witness ==
    \E b \in BookingIds :
        /\ resp = Resp("remove-dish", b, 200)
        /\ Cardinality(ListsOf(final_ingredients, b)) = 1
        /\ ListOf(b).approved_at # Null

\* C9: approval is a latch.  From a state in which a booking's list is
\* approved, regenerate, manual update, remove-dish and a repeated approve
\* lead to a state in which the list exists and is still approved.
C9_ApprovalLatch ==
    [][\A b \in BookingIds :
          ( /\ HasList(b)
            /\ ListOf(b).approved_by_admin
            /\ resp'.op \in {"regenerate", "approve", "update", "remove-dish"}
            /\ \/ Regenerate(b)
               \/ Approve(b)
               \/ \E ings \in ManualLists : UpdateManual(b, ings)
               \/ \E dn \in RemoveNames : RemoveDish(b, dn) ) =>
              /\ ListsOf(final_ingredients', b) # {}
              /\ ListIn(final_ingredients', b).approved_by_admin]_vars

\* C9 witness: a list approved earlier (the booking is marked APPROVED) is
\* still approved after a later successful regenerate
C9_Witness ==
    \E b \in BookingIds :
        /\ resp = Resp("regenerate", b, 200)
        /\ HasList(b)
        /\ ListOf(b).approved_by_admin
        /\ orders[b].status = "APPROVED"

\* C10: approval does not block edits.  On an approved list, regenerate of an
\* existing booking succeeds and stores the recomputed ingredients, and a
\* manual update whose entries all have names succeeds and stores exactly
\* the submitted ingredients, as on a list that is not approved.
C10_ApprovedListStillEditable ==
    [][\A b \in BookingIds :
          (HasList(b) /\ ListOf(b).approved_by_admin
                /\ resp'.op \in {"regenerate", "update"}) =>
              /\ (Regenerate(b) /\ orders[b].present) =>
                    /\ resp' = Resp("regenerate", b, 200)
                    /\ ListIn(final_ingredients', b).ingredients = Recomputed(b)
              /\ \A ings \in ManualLists :
                    (UpdateManual(b, ings) /\ ~HasUnnamedEntry(ings)) =>
                        /\ resp' = Resp("update", b, 200)
                        /\ ListIn(final_ingredients', b).ingredients = ings]_vars

\* C10 witness: an approved list holding manually submitted ingredients
C10_Witness ==
    \E b \in BookingIds :
        /\ resp = Resp("update", b, 200)
        /\ HasList(b)
        /\ ListOf(b).approved_by_admin
        /\ ListOf(b).ingredients \in ManualLists

\* some dish line of the booking carries the name, compared without case
MatchesSomeLine(b, dish_name) ==
    \E i \in 1..Len(orders[b].dishes) :
        Lower(orders[b].dishes[i].dish_name) = Lower(dish_name)

C13_ManualUpdateReplacesOrRejects ==
    [][\A b \in BookingIds : \A ings \in ManualLists :
          (resp'.op = "update" /\ UpdateManual(b, ings)) =>
              /\ orders' = orders
              /\ IF \E i \in 1..Len(ings) : Len(ings[i].name) = 0
                 THEN /\ resp' = Resp("update", b, 400)
                      /\ final_ingredients' = final_ingredients
                 ELSE IF ~HasList(b)
                 THEN /\ resp' = Resp("update", b, 404)
                      /\ final_ingredients' = final_ingredients
                 ELSE /\ resp' = Resp("update", b, 200)
                      /\ final_ingredients' =
                            [final_ingredients EXCEPT
                                ![FirstListOf(final_ingredients, b)].ingredients =
                                    ings]]_vars

\* C13 witness: an update with an unnamed entry has been rejected and the
\* stored list is still the generated one
C13_Witness ==
    \E b \in BookingIds :
        /\ resp = Resp("update", b, 400)
        /\ HasList(b)
        /\ ListOf(b).ingredients = Recomputed(b)
        /\ ListOf(b).ingredients # <<>>

\* the position of a category in valid_categories
CategoryRank(category) ==
    CHOOSE k \in 1..Len(Categories) : Categories[k] = category

\* C14: a stored list whose entries span all twelve categories is in the
\* order Vegetables, Non-Vegetarian, Spices / Masala, Dairy, Fruit, Dry
\* Fruits, Grain, Herbs, Beverages, Oil and Fats, Bakery & Sweets, Other:
\* no entry of a later category stands before an entry of an earlier one,
\* whatever the order of the template entries.
C14_ListInCategoryOrder ==
    \A b \in BookingIds :
        ( /\ HasList(b)
          /\ \A k \in 1..Len(Categories) :
                \E i \in 1..Len(ListOf(b).ingredients) :
                    ListOf(b).ingredients[i].category = Categories[k] ) =>
            \A i, j \in 1..Len(ListOf(b).ingredients) :
                i < j => CategoryRank(ListOf(b).ingredients[i].category)
                            <= CategoryRank(ListOf(b).ingredients[j].category)

UnconvertibleEntries(b) ==
    { e \in UNION { {TemplateOf(orders[b].dishes[k])[i] :
                        i \in 1..Len(TemplateOf(orders[b].dishes[k]))} :
                    k \in 1..Len(orders[b].dishes) } :
        ~to_base_unit(e.per_plate, e.unit).ok }

\* C16: after a successful generate, every template entry whose unit is
\* empty or unknown has an aggregated total and a listed entry: the total is
\* a number in base g or ml, and for a name containing "milk" it is in ml, the
\* per-ten-guests quantity read as litres; the listed entry carries a mass or
\* volume display unit.
C16_FallbackAlwaysConverts ==
    \A b \in BookingIds :
        resp = Resp("generate", b, 200) =>
            \A e \in UnconvertibleEntries(b) :
                /\ \E i \in 1..Len(BookingTotals(b)) :
                      /\ BookingTotals(b)[i].name = e.name
                      /\ BookingTotals(b)[i].quantity \in Nat
                      /\ BookingTotals(b)[i].base_unit \in {"g", "ml"}
                      /\ Contains(Lower(e.name), MilkWord) =>
                            BookingTotals(b)[i].base_unit = "ml"
                /\ \E i \in 1..Len(ListOf(b).ingredients) :
                      /\ ListOf(b).ingredients[i].name = e.name
                      /\ ListOf(b).ingredients[i].quantity \in Nat
                      /\ ListOf(b).ingredients[i].unit \in {"g", "kg", "ml", "ltr"}
                      /\ Contains(Lower(e.name), MilkWord) =>
                            ListOf(b).ingredients[i].unit \in {"ml", "ltr"}

\* C16 witness: generate has succeeded for a template entry Fresh Milk, 1.0,
\* with no usable unit: 20 guests get 2.0 ltr
C16_Witness ==
    \E b \in BookingIds :
        /\ resp = Resp("generate", b, 200)
        /\ \E e \in UnconvertibleEntries(b) : e.name = N_FreshMilk
        /\ Len(ListOf(b).ingredients) = 1
        /\ ListOf(b).ingredients[1].name = N_FreshMilk
        /\ ListOf(b).ingredients[1].quantity = 2 * Scale
        /\ ListOf(b).ingredients[1].unit = "ltr"

\* the dish of a dish line is in the catalog and has template entries
HasTemplate(line) ==
    \E i \in 1..Len(dishes_collection) :
        /\ Lower(dishes_collection[i].name) = Lower(line.dish_name)
        /\ \A j \in 1..(i - 1) :
              Lower(dishes_collection[j].name) # Lower(line.dish_name)
        /\ Len(dishes_collection[i].ingredients) > 0

\* C17: dish lines whose dish is not in the catalog, or whose dish has no
\* template entries, do not fail generate and contribute nothing: the list a
\* successful generate stores is the aggregation over the booking's other
\* dish lines alone.
C17_LinesWithoutTemplateIgnored ==
    \A b \in BookingIds :
        resp = Resp("generate", b, 200) =>
            /\ HasList(b)
            /\ ListOf(b).ingredients =
                  FinalIngredients(dishes_collection, orders[b].guests,
                                   SelectSeq(orders[b].dishes, HasTemplate))

\* C17 witness: generate has succeeded on a booking with a Dal line (no such
\* dish) between two lines that have templates, and the list is not empty
C17_Witness ==
    \E b \in BookingIds :
        /\ resp = Resp("generate", b, 200)
        /\ Len(orders[b].dishes) = 3
        /\ orders[b].dishes[2].dish_name = N_Dal
        /\ ~HasTemplate(orders[b].dishes[2])
        /\ Len(ListOf(b).ingredients) = 3

\* grams of value in a mass unit: kg x 1000, g x 1, oz x 28.35, lb x 453.59,
\* mg / 1000
GramsOf(value, unit) ==
    CASE unit = "kg" -> value * 1000
      [] unit = "g" -> value
      [] unit = "oz" -> (value \div 100) * 2835
      [] unit = "lb" -> (value \div 100) * 45359
      [] unit = "mg" -> value \div 1000

\* the distance of two quantities
Distance(x, y) == IF x >= y THEN x - y ELSE y - x

\* the template entries of the booking's dish lines given in a mass unit
MassEntries(b) ==
    { e \in UNION { {TemplateOf(orders[b].dishes[k])[i] :
                        i \in 1..Len(TemplateOf(orders[b].dishes[k]))} :
                    k \in 1..Len(orders[b].dishes) } :
        e.unit \in MassUnits }

\* C18: for every template quantity v in a mass unit u, to_display_unit
\* applied to the result of to_base_unit(v, u) gives the unit kg when the
\* base quantity is at least 1000 g and the unit g otherwise, and a quantity
\* within half a hundredth of v expressed in that unit.
C18_MassRoundTrip ==
    \A b \in BookingIds : \A e \in MassEntries(b) :
        LET base == to_base_unit(e.per_plate, e.unit)
            shown == to_display_unit(base.value, base.unit)
        IN  /\ base.ok /\ base.unit = "g"
            /\ base.value = GramsOf(e.per_plate, e.unit)
            /\ shown.unit \in {"kg", "g"}
            /\ shown.unit = "kg" <=> base.value >= 1000 * Scale
            /\ shown.unit = "kg" =>
                  Distance(shown.value * 1000, GramsOf(e.per_plate, e.unit))
                      <= 5 * Scale
            /\ shown.unit = "g" =>
                  Distance(shown.value, GramsOf(e.per_plate, e.unit))
                      <= Scale \div 200

\* C18 witness: generate has succeeded for ten guests and one serving of a
\* dish with 35.3 oz of Rice, listed as 1.0 kg
C18_Witness ==
    \E b \in BookingIds :
        /\ resp = Resp("generate", b, 200)
        /\ \E e \in MassEntries(b) : e.unit = "oz" /\ e.per_plate = Tenths(353)
        /\ orders[b].guests = 10
        /\ Len(ListOf(b).ingredients) = 1
        /\ ListOf(b).ingredients[1].unit = "kg"
        /\ ListOf(b).ingredients[1].quantity = Scale

C20_EmailFailureNotPropagated ==
    \A b \in BookingIds :
        (resp.op = "approve" /\ resp.booking_id = b /\ resp.email = "raised") =>
            /\ resp.code = 200
            /\ HasList(b)
            /\ ListOf(b).approved_by_admin
            /\ ListOf(b).approved_at # Null
            /\ orders[b].ingredients_sent

\* C20 witness: an approve whose email step raised has answered 200 and left
\* the list approved and the booking marked
C20_Witness ==
    \E b \in BookingIds :
        /\ resp.op = "approve" /\ resp.booking_id = b
        /\ resp.email = "raised"
        /\ resp.code = 200
        /\ ListOf(b).approved_by_admin
        /\ orders[b].ingredients_sent
        /\ ListOf(b).ingredients # <<>>

\* C21: every dish stored by create-dish has only template entries with a
\* name, a quantity above 0 and a unit of the vocabulary (surrounding blanks
\* aside), every unit of the vocabulary is one to_base_unit converts, and so
\* to_base_unit converts every stored template entry without raising.
C21_StoredTemplatesConvert ==
    /\ \A u \in valid_units : to_base_unit(Scale, u).ok
    /\ \A d \in 1..Len(dishes_collection) :
          \A i \in 1..Len(dishes_collection[d].ingredients) :
              LET e == dishes_collection[d].ingredients[i] IN
              /\ e.per_plate > 0
              /\ e.unit \in valid_units \cup {" kg "}
              /\ to_base_unit(e.per_plate, e.unit).ok

\* C21 witness: a dish with template entries has been stored, one of its
\* units written with blanks around it, and a second create-dish was refused
C21_Witness ==
    /\ resp = Resp("create-dish", 0, 400)
    /\ Len(dishes_collection) = 1
    /\ Len(dishes_collection[1].ingredients) = 2
    /\ dishes_collection[1].ingredients[2].unit = " kg "

\* the listed entry of an ingredient name
ListedEntry(b, ing_name) ==
    ListOf(b).ingredients[
        CHOOSE i \in 1..Len(ListOf(b).ingredients) :
            ListOf(b).ingredients[i].name = ing_name]

\* C22: in a list just generated or regenerated, a total in base ml is
\* listed in litre, divided by 1000, when it is at least 1000 and in ml
\* otherwise, rounded to 2 decimals; a total in a count unit is listed in
\* that unit, rounded to 2 decimals.
C22_VolumeAndCountDisplay ==
    \A b \in BookingIds :
        resp \in {Resp("generate", b, 200), Resp("regenerate", b, 200)} =>
            \A i \in 1..Len(BookingTotals(b)) :
                LET t == BookingTotals(b)[i]
                    e == ListedEntry(b, t.name)
                IN  /\ t.base_unit = "ml" =>
                          IF t.quantity >= 1000 * Scale
                          THEN /\ e.unit = "litre"
                               /\ e.quantity = Round2Div1000(t.quantity)
                          ELSE /\ e.unit = "ml"
                               /\ e.quantity = Round2(t.quantity)
                    /\ t.base_unit \notin {"g", "ml"} =>
                          /\ e.unit = t.base_unit
                          /\ e.quantity = Round2(t.quantity)

\* the category rules in the order the keyword chain tries them
CategoryRules ==
    << [category |-> "Non-Vegetarian", words |-> NonVegWords],
       [category |-> "Vegetables", words |-> VegetableWords],
       [category |-> "Spices / Masala", words |-> SpiceWords],
       [category |-> "Dairy", words |-> DairyWords],
       [category |-> "Fruit", words |-> FruitWords],
       [category |-> "Grain", words |-> GrainWords],
       [category |-> "Herbs", words |-> HerbWords],
       [category |-> "Beverages", words |-> BeverageWords],
       [category |-> "Oil and Fats", words |-> OilFatWords],
       [category |-> "Bakery & Sweets", words |-> SweetWords] >>

\* the dish lines' template entries in the order the loops visit them, each
\* with the quantity of its dish line
RECURSIVE ContributionsFrom(_, _)
ContributionsFrom(b, k) ==
    IF k > Len(orders[b].dishes) THEN <<>>
    ELSE [i \in 1..Len(TemplateOf(orders[b].dishes[k])) |->
            [entry |-> TemplateOf(orders[b].dishes[k])[i],
             quantity |-> orders[b].dishes[k].quantity]]
         \o ContributionsFrom(b, k + 1)

\* the first contribution of an ingredient name
FirstContribution(b, ing_name) ==
    ContributionsFrom(b, 1)[
        CHOOSE i \in 1..Len(ContributionsFrom(b, 1)) :
            /\ ContributionsFrom(b, 1)[i].entry.name = ing_name
            /\ \A j \in 1..(i - 1) : ContributionsFrom(b, 1)[j].entry.name # ing_name]

\* C23: in a list just generated, the entry of an ingredient name has the
\* category of the name's first template entry when that is not empty;
\* when it is empty the entry has the category of the first rule, in the
\* order Non-Vegetarian, Vegetables, Spices / Masala, Dairy, Fruit, Grain,
\* Herbs, Beverages, Oil and Fats, Bakery & Sweets, one of whose keywords
\* occurs in the lowercased name, and Other when no rule has one.
C23_CategoryResolution ==
    \A b \in BookingIds :
        resp = Resp("generate", b, 200) =>
            \A c \in 1..Len(ContributionsFrom(b, 1)) :
                LET e == FirstContribution(b, ContributionsFrom(b, 1)[c].entry.name).entry
                    hits == { k \in 1..Len(CategoryRules) :
                                \E w \in 1..Len(CategoryRules[k].words) :
                                    Contains(Lower(e.name), CategoryRules[k].words[w]) }
                    listed == ListedEntry(b, e.name).category
                IN  IF e.category # "" THEN listed = e.category
                    ELSE IF hits = {} THEN listed = "Other"
                    ELSE \E k \in hits :
                            /\ \A h \in hits : k <= h
                            /\ listed = CategoryRules[k].category

\* C23 witness: a list generated from entries without category in which
\* Butter (the third name) is Dairy, Coriander (the second) is Vegetables,
\* Biryani Rice (the fifth) is Spices / Masala and Salt is Other
C23_Witness ==
    \E b \in BookingIds :
        /\ resp = Resp("generate", b, 200)
        /\ \A c \in 1..Len(ContributionsFrom(b, 1)) : ContributionsFrom(b, 1)[c].entry.category = ""
        /\ Len(ContributionsFrom(b, 1)) = Len(KeywordNames)
        /\ ListedEntry(b, KeywordNames[3]).category = "Dairy"
        /\ ListedEntry(b, KeywordNames[2]).category = "Vegetables"
        /\ ListedEntry(b, KeywordNames[5]).category = "Spices / Masala"
        /\ ListedEntry(b, N_Salt).category = "Other"

\* C24: a list just generated has exactly one entry for each distinct
\* ingredient name, compared character by character, that occurs in the
\* templates of the booking's dish lines: no name is listed twice, none is
\* missing, and names that differ in letter case only have separate entries.
C24_OneEntryPerExactName ==
    \A b \in BookingIds :
        resp = Resp("generate", b, 200) =>
            LET listed == ListOf(b).ingredients IN
            /\ \A i, j \in 1..Len(listed) : listed[i].name = listed[j].name => i = j
            /\ {listed[i].name : i \in 1..Len(listed)} =
                  {ContributionsFrom(b, 1)[c].entry.name : c \in 1..Len(ContributionsFrom(b, 1))}

\* C24 witness: a list generated from two dishes has one entry Onion, summed
\* over both dishes, and a separate entry onion
C24_Witness ==
    \E b \in BookingIds :
        /\ resp = Resp("generate", b, 200)
        /\ Len(orders[b].dishes) = 2
        /\ Len(ContributionsFrom(b, 1)) = 3
        /\ Len(ListOf(b).ingredients) = 2
        /\ ListedEntry(b, N_Onion).quantity > 0
        /\ ListedEntry(b, Lower(N_Onion)).quantity > 0

\* the sum of the scaled quantities of the contributions of ing_name from
\* position k on, each converted to its own base unit
RECURSIVE ScaledSumFrom(_, _, _)
ScaledSumFrom(b, ing_name, k) ==
    IF k > Len(ContributionsFrom(b, 1)) THEN 0
    ELSE LET c == ContributionsFrom(b, 1)[k]
             conv == ConvertWithFallback(c.entry.name, c.entry.per_plate,
                                         NormUnit(c.entry.unit))
         IN  (IF c.entry.name = ing_name
              THEN (conv.value \div 10) * orders[b].guests * c.quantity
              ELSE 0)
             + ScaledSumFrom(b, ing_name, k + 1)

\* C25: in a list just generated, the entry of an ingredient name is the
\* display form of a total whose base unit and category are those of the
\* name's first occurrence in the booking's dish lines and whose quantity is
\* the plain sum of all the name's scaled contributions, each in its own
\* base unit, whether or not the base units agree.
C25_FirstOccurrenceFixesUnitAndCategory ==
    \A b \in BookingIds :
        resp = Resp("generate", b, 200) =>
            \A c \in 1..Len(ContributionsFrom(b, 1)) :
                LET n == ContributionsFrom(b, 1)[c].entry.name
                    first == FirstContribution(b, n).entry
                    conv == ConvertWithFallback(first.name, first.per_plate,
                                                NormUnit(first.unit))
                    d == to_display_unit(ScaledSumFrom(b, n, 1), conv.unit)
                IN  /\ ListedEntry(b, n).quantity = d.value
                    /\ ListedEntry(b, n).unit = d.unit
                    /\ ListedEntry(b, n).category = ResolveCategory(first)

\* C25 witness: Onion occurs first in pcs with category Other and then in
\* kg with category Vegetables; it is listed in pcs, category Other, with the
\* grams of the second dish added to the pieces of the first
C25_Witness ==
    \E b \in BookingIds :
        /\ resp = Resp("generate", b, 200)
        /\ \E c \in 1..Len(ContributionsFrom(b, 1)) :
                /\ ContributionsFrom(b, 1)[c].entry.name = N_Onion
                /\ ContributionsFrom(b, 1)[c].entry.unit = "kg"
        /\ FirstContribution(b, N_Onion).entry.unit = "pcs"
        /\ ListedEntry(b, N_Onion).unit = "pcs"
        /\ ListedEntry(b, N_Onion).category = "Other"
        /\ ListedEntry(b, N_Onion).quantity = ScaledSumFrom(b, N_Onion, 1)
        /\ ListedEntry(b, N_Onion).quantity > 1000 * Scale
        /\ ListedEntry(b, N_Rice).unit = "ltr"

----------------------------------------------------------------------------
(* Overlapping create-booking requests: the storage calls of               *)
(* create_new_booking and models.create_booking are separate steps         *)

InitSlots ==
    /\ admins_collection = InitialAdmins
    /\ now = 0
    /\ orders = [b \in 1..MaxSlotRequests |-> NoOrder]
    /\ nextId = 0
    /\ reserved_slots = <<>>
    /\ final_ingredients = <<>>
    /\ dishes_collection = Menu
    /\ resp = NoResp
    /\ reqs = [r \in 1..MaxSlotRequests |->
                [pc |-> "idle", booking_id |-> 0, code |-> 0,
                 inp |-> [guests |-> 0, selected_dishes |-> <<>>,
                          event_date |-> "", time_slot |-> ""]]]

\* create_new_booking: validation and the availability check of the route
CreateBookingRouteCheck(r, inp) ==
    /\ UNCHANGED adminVars
    /\ reqs[r].pc = "idle"
    /\ reqs' = [reqs EXCEPT ![r] =
            IF inp.guests < 1 \/ inp.guests > 10000 \/ Len(inp.selected_dishes) = 0
            THEN [pc |-> "done", booking_id |-> 0, code |-> 400, inp |-> inp]
            ELSE IF ~check_slot_availability(inp.event_date, inp.time_slot)
            THEN [pc |-> "done", booking_id |-> 0, code |-> 409, inp |-> inp]
            ELSE [pc |-> "create_booking", booking_id |-> 0, code |-> 0, inp |-> inp]]
    /\ UNCHANGED <<orders, nextId, reserved_slots, final_ingredients,
                   dishes_collection, resp>>

\* models.create_booking: its own availability check; None becomes 409
CreateBookingModelCheck(r) ==
    /\ UNCHANGED adminVars
    /\ reqs[r].pc = "create_booking"
    /\ reqs' = [reqs EXCEPT ![r] =
            IF ~check_slot_availability(reqs[r].inp.event_date, reqs[r].inp.time_slot)
            THEN [@ EXCEPT !.pc = "done", !.code = 409]
            ELSE [@ EXCEPT !.pc = "insert_order"]]
    /\ UNCHANGED <<orders, nextId, reserved_slots, final_ingredients,
                   dishes_collection, resp>>

\* models.create_booking: orders_collection.insert_one
CreateBookingInsertOrder(r) ==
    /\ UNCHANGED adminVars
    /\ reqs[r].pc = "insert_order"
    /\ nextId < MaxSlotRequests
    /\ nextId' = nextId + 1
    /\ orders' = [orders EXCEPT ![nextId + 1] =
            [present |-> TRUE, guests |-> reqs[r].inp.guests,
             dishes |-> DishDetails(reqs[r].inp.selected_dishes, 1),
             status |-> "Pending", ingredients_sent |-> FALSE]]
    /\ reqs' = [reqs EXCEPT ![r].pc = "reserve", ![r].booking_id = nextId + 1]
    /\ UNCHANGED <<reserved_slots, final_ingredients, dishes_collection, resp>>

\* models.create_booking: reserved_slots_collection.insert_one, return of
\* the booking id, and the 201 of the route
CreateBookingReserve(r) ==
    /\ UNCHANGED adminVars
    /\ reqs[r].pc = "reserve"
    /\ reserved_slots' = Append(reserved_slots,
            [date |-> reqs[r].inp.event_date, time_slot |-> reqs[r].inp.time_slot,
             booking_id |-> reqs[r].booking_id])
    /\ reqs' = [reqs EXCEPT ![r].pc = "done", ![r].code = 201]
    /\ resp' = Resp("create", reqs[r].booking_id, 201)
    /\ UNCHANGED <<orders, nextId, final_ingredients, dishes_collection>>

NextSlots ==
    \/ \E r \in 1..MaxSlotRequests, inp \in BookingInputs : CreateBookingRouteCheck(r, inp)
    \/ \E r \in 1..MaxSlotRequests : CreateBookingModelCheck(r)
    \/ \E r \in 1..MaxSlotRequests : CreateBookingInsertOrder(r)
    \/ \E r \in 1..MaxSlotRequests : CreateBookingReserve(r)

\* create-booking requests may overlap
SpecSlots == InitSlots /\ [][NextSlots]_vars

\* C26: slot reservation is exclusive.  Under every interleaving of
\* create-booking requests, for each event date and time slot at most one
\* reserved-slot record exists and at most one request has returned a
\* booking id.
C26_SlotReservationExclusive ==
    \A inp \in BookingInputs :
        /\ Cardinality({ i \in 1..Len(reserved_slots) :
                            /\ reserved_slots[i].date = inp.event_date
                            /\ reserved_slots[i].time_slot = inp.time_slot }) <= 1
        /\ Cardinality({ r \in 1..MaxSlotRequests :
                            /\ reqs[r].pc = "done"
                            /\ reqs[r].code = 201
                            /\ reqs[r].inp.event_date = inp.event_date
                            /\ reqs[r].inp.time_slot = inp.time_slot }) <= 1

----------------------------------------------------------------------------
(* Admin login: backend/models.py validate_admin *)

\* timedelta(minutes=15)
LockMinutes == 15

\* admins_collection.find_one({"username": username}): position, 0 for None
FindAdmin(coll, username) ==
    IF \E i \in 1..Len(coll) : coll[i].username = username
    THEN CHOOSE i \in 1..Len(coll) :
            /\ coll[i].username = username
            /\ \A j \in 1..(i - 1) : coll[j].username # username
    ELSE 0

\* check_password_hash(admin["password"], password)
check_password_hash(stored, password) == stored = password

\* admin.get("locked_until") and datetime.utcnow() < admin["locked_until"]
IsLocked(admin, t) == admin.locked_until # Null /\ t < admin.locked_until

\* the lock set one failed attempt later
LockThresholdAboveFive(attempts) == attempts > 5

\* if attempts >= 5
LockThreshold(attempts) == attempts >= 5

\* the response of validate_admin: the arguments, the value returned, and
\* the number of calls that returned False for an existing admin since the
\* last one that returned True
LoginResp(username, password, result, failed) ==
    [op |-> "login", username |-> username, password |-> password,
     result |-> result, failed |-> failed]

\* validate_admin(username, password)
ValidateAdmin(username, password) ==
    LET i == FindAdmin(admins_collection, username)
        FailedSoFar == IF resp.op = "login" THEN resp.failed ELSE 0
    IN
    /\ IF i = 0
       THEN /\ resp' = LoginResp(username, password, "False", FailedSoFar)
            /\ UNCHANGED admins_collection
       ELSE IF IsLocked(admins_collection[i], now)
       THEN /\ resp' = LoginResp(username, password, "LOCKED", FailedSoFar)
            /\ UNCHANGED admins_collection
       ELSE IF check_password_hash(admins_collection[i].password, password)
       THEN /\ admins_collection' =
                  [admins_collection EXCEPT ![i].login_attempts = 0,
                                            ![i].locked_until = Null]
            /\ resp' = LoginResp(username, password, "True", 0)
       ELSE LET attempts == admins_collection[i].login_attempts + 1 IN
            /\ admins_collection' =
                  [admins_collection EXCEPT
                      ![i].login_attempts = attempts,
                      ![i].locked_until =
                          IF LockThreshold(attempts) THEN now + LockMinutes ELSE @]
            /\ resp' = LoginResp(username, password, "False", FailedSoFar + 1)
    /\ UNCHANGED <<orders, nextId, reserved_slots, final_ingredients,
                   dishes_collection, reqs, now>>

\* a minute passes
Tick ==
    /\ now < MaxClock
    /\ now' = now + 1
    /\ UNCHANGED <<orders, nextId, reserved_slots, final_ingredients,
                   dishes_collection, resp, reqs, admins_collection>>

NextAdmin ==
    \/ \E u \in {"admin", "ghost"}, p \in {"secret", "wrong"} : ValidateAdmin(u, p)
    \/ Tick

\* logins are handled one at a time while time passes
SpecAdmin == Init /\ [][NextAdmin]_vars

\* the document of the admin named admin
TheAdmin == admins_collection[FindAdmin(admins_collection, "admin")]

\* C30: admin login lockout.  (a) When a validate_admin call for the
\* existing admin returns False and is the fifth or a later such call since
\* the last successful login, the account is locked until 15 minutes after
\* the call.  (b) While the lock lasts, a call for that admin returns
\* LOCKED whatever the password and changes neither the attempt counter nor
\* the lock, and the passing of time changes neither.  (c) A call that
\* returns True leaves the attempt counter 0 and the lock cleared.
C30_AdminLockout ==
    [][ /\ \A p \in {"secret", "wrong"} :
            (resp'.op = "login" /\ ValidateAdmin("admin", p)) =>
                /\ (resp'.result = "False" /\ resp'.failed >= 5) =>
                        /\ TheAdmin'.locked_until = now + LockMinutes
                        /\ IsLocked(TheAdmin', now)
                /\ (TheAdmin.locked_until # Null /\ now < TheAdmin.locked_until) =>
                        /\ resp'.result = "LOCKED"
                        /\ admins_collection' = admins_collection
                /\ resp'.result = "True" =>
                        /\ TheAdmin'.login_attempts = 0
                        /\ TheAdmin'.locked_until = Null
        /\ (TheAdmin.locked_until # Null /\ now < TheAdmin.locked_until) =>
                admins_collection' = admins_collection
      ]_vars

\* C30 witness: in the last minute of the lock that the fifth failed call
\* set, a call with the correct password has returned LOCKED and the
\* counter is still 5
C30_Witness ==
    /\ resp = LoginResp("admin", "secret", "LOCKED", 5)
    /\ TheAdmin.login_attempts = 5
    /\ TheAdmin.locked_until = now + 1
    /\ now >= LockMinutes - 1

\* C28: every booking that exists has one of the statuses Pending,
\* Confirmed, Completed, Cancelled, whatever bookings were created, status
\* updates requested and ingredient lists approved.
C28_StatusInLifecycleSet ==
    \A b \in BookingIds :
        orders[b].present =>
            orders[b].status \in {"Pending", "Confirmed", "Completed", "Cancelled"}

\* C29: no orphan lists.  Every stored list carries the booking_id of a
\* booking that exists; in particular nothing is stored by a generate
\* request answered 404, and no list of a booking is left once a
\* delete-booking request for it was answered 200.
C29_NoOrphanLists ==
    /\ \A i \in 1..Len(final_ingredients) :
            /\ final_ingredients[i].booking_id \in BookingIds
            /\ orders[final_ingredients[i].booking_id].present
    /\ \A b \in BookingIds :
            (resp = Resp("generate", b, 404) \/ resp = Resp("delete", b, 200)) =>
                ListsOf(final_ingredients, b) = {}

\* C29 witness: a booking was created and deleted, a generate request for
\* it was then answered 404, and no list is stored
C29_Witness ==
    /\ nextId = 1
    /\ ~orders[1].present
    /\ resp = Resp("generate", 1, 404)
    /\ final_ingredients = <<>>

----------------------------------------------------------------------------
(* Sharing the ingredients PDF: backend/ingredients/routes.py              *)
(* share_booking_pdf, send_pdf_to_admin_email                              *)

\* the gate passed by every list that exists, approved or not
PdfShareAllowedUnapproved(coll, b) == ListsOf(coll, b) # {}

\* not (not final_ingredients or not final_ingredients.get("approved_by_admin"))
PdfShareAllowed(coll, b) ==
    /\ ListsOf(coll, b) # {}
    /\ coll[FirstListOf(coll, b)].approved_by_admin

\* from backend.utils.pdf_generator import generate_ingredients_pdf: the
\* module defines no such name, the import raises
generate_ingredients_pdf == "raised"

\* what a PDF handler answers: 404 without booking, 400 without approved
\* list; behind the gate the PDF import raises and the handler's except
\* clause answers 500 before anything is sent
PdfResponse(op, b) ==
    IF ~orders[b].present THEN Resp(op, b, 404)
    ELSE IF ~PdfShareAllowed(final_ingredients, b) THEN Resp(op, b, 400)
    ELSE [Resp(op, b, 500) EXCEPT !.email = generate_ingredients_pdf]

\* POST /admin/api/ingredients/booking/<id>/share : share_booking_pdf
SharePdf(b, share_method) ==
    /\ UNCHANGED adminVars
    /\ resp' = PdfResponse("share", b)
    /\ UNCHANGED <<orders, nextId, reserved_slots, final_ingredients,
                   dishes_collection, reqs>>

\* POST /admin/api/ingredients/booking/<id>/send-pdf-email (and the legacy
\* route) : send_pdf_to_admin_email
SendPdfToAdminEmail(b) ==
    /\ UNCHANGED adminVars
    /\ resp' = PdfResponse("send-pdf-email", b)
    /\ UNCHANGED <<orders, nextId, reserved_slots, final_ingredients,
                   dishes_collection, reqs>>

NextShare ==
    \/ \E inp \in BookingInputs : CreateBooking(inp)
    \/ \E b \in BookingIds, st \in StatusInputs : UpdateStatus(b, st)
    \/ \E b \in BookingIds : DeleteBooking(b)
    \/ \E b \in BookingIds : Generate(b)
    \/ \E b \in BookingIds, ings \in ManualLists : UpdateManual(b, ings)
    \/ \E b \in BookingIds : Approve(b)
    \/ \E b \in BookingIds, m \in {"email", "whatsapp", "both"} : SharePdf(b, m)
    \/ \E b \in BookingIds : SendPdfToAdminEmail(b)

\* the booking lifecycle with the PDF requests, one request at a time
SpecShare == Init /\ [][NextShare]_vars

\* C27: a PDF request (share, send-pdf-email) gets past the checks of the
\* handler only when the booking exists and its list exists and has
\* approved_by_admin = true at that moment; in every other state it is
\* answered 404 or 400 and nothing is generated or sent.
C27_PdfSharedOnlyWhenApproved ==
    \A b \in BookingIds :
        (resp.op \in {"share", "send-pdf-email"} /\ resp.booking_id = b) =>
            \/ /\ orders[b].present
               /\ HasList(b)
               /\ ListOf(b).approved_by_admin
            \/ /\ resp.code \in {400, 404}
               /\ resp.email = "none"

\* C27 witness: a share request for a booking whose list exists and is not
\* approved was answered 400
C27_Witness ==
    \E b \in BookingIds :
        /\ resp = Resp("share", b, 400)
        /\ orders[b].present
        /\ HasList(b)
        /\ ~ListOf(b).approved_by_admin

====
